---- MODULE Spec2Model ----
(***************************************************************************)
(* Model of the contract-filler web application (src/app.py): the dataset  *)
(* loaded from the contracts CSV, the field registry, the identity lookups *)
(* (/pick), the cluster view (/cluster), the contract view (/contract) and *)
(* the append-only edits CSV (/contract/<n>/update).                       *)
(*                                                                         *)
(* Python strings are modelled as sequences of one-character strings, so   *)
(* that strip(), re.sub(), str() and int() are computed on the characters. *)
(***************************************************************************)
EXTENDS Integers, Sequences, FiniteSets, TLC

VARIABLES
    source,           \* the contracts CSV as read from disk (header + rows)
    DF,               \* the module-level DataFrame
    ALL_COLUMNS,      \* form schema
    SAFE_NAME_MAP,    \* original -> safe
    UNSAFE_NAME_MAP,  \* safe -> original
    journal,          \* the edits CSV: [exists, chunks]
    edits0,           \* the edits CSV as it was at start-up (history)
    now,              \* the UTC clock, in whole seconds
    req,              \* the request last answered
    resp,             \* the response to it
    pc,               \* per worker thread: position inside update()
    loc               \* per worker thread: the locals of update()

vars == <<source, DF, ALL_COLUMNS, SAFE_NAME_MAP, UNSAFE_NAME_MAP,
          journal, edits0, now, req, resp, pc, loc>>

-----------------------------------------------------------------------------
(* Bounds of the model *)

MaxRows == 3        \* rows of a small contracts CSV
MaxAppends == 2     \* lines the edits CSV may grow by
MaxClock == 1       \* clock readings 0..MaxClock
MaxThreads == 2     \* concurrently running update() requests

-----------------------------------------------------------------------------
(* Characters and strings *)

Range(s) == {s[i] : i \in DOMAIN s}

Min(a, b) == IF a <= b THEN a ELSE b

Digits == <<"0", "1", "2", "3", "4", "5", "6", "7", "8", "9">>

Letters == {"a", "b", "c", "d", "e", "f", "g", "h", "i", "j", "k", "l", "m",
            "n", "o", "p", "q", "r", "s", "t", "u", "v", "w", "x", "y", "z",
            "A", "B", "C", "D", "E", "F", "G", "H", "I", "J", "K", "L", "M",
            "N", "O", "P", "Q", "R", "S", "T", "U", "V", "W", "X", "Y", "Z"}

\* the characters the class [0-9a-zA-Z_] of sanitize_name accepts
WordChars == Range(Digits) \cup Letters \cup {"_"}

\* the characters str.strip() removes
Whitespace == {" ", "\t", "\n", "\r"}

EMPTY == <<>>

\* code points of the characters the model's data uses (for string ordering)
ord(ch) ==
    CASE ch = "\t" -> 9
      [] ch = "\n" -> 10
      [] ch = "\r" -> 13
      [] ch = " " -> 32
      [] ch = "-" -> 45
      [] ch \in Range(Digits) -> 48 + (CHOOSE i \in 0..9 : Digits[i + 1] = ch)
      [] ch = "Z" -> 90
      [] ch = "_" -> 95
      [] ch = "a" -> 97
      [] ch = "b" -> 98
      [] ch = "p" -> 112
      [] ch = "q" -> 113
      [] ch = "x" -> 120
      [] ch = "y" -> 121
      [] ch = "z" -> 122

\* Python's < on str: lexicographic by code point
RECURSIVE str_lt(_, _)
str_lt(s, t) ==
    IF t = EMPTY THEN FALSE
    ELSE IF s = EMPTY THEN TRUE
    ELSE IF Head(s) = Head(t) THEN str_lt(Tail(s), Tail(t))
    ELSE ord(Head(s)) < ord(Head(t))

RECURSIVE lstrip(_)
lstrip(s) ==
    IF s # EMPTY /\ Head(s) \in Whitespace THEN lstrip(Tail(s)) ELSE s

RECURSIVE rstrip(_)
rstrip(s) ==
    IF s # EMPTY /\ s[Len(s)] \in Whitespace
    THEN rstrip(SubSeq(s, 1, Len(s) - 1)) ELSE s

\* str.strip()
strip(s) == rstrip(lstrip(s))

\* str(n) for a non-negative int: its decimal digits
RECURSIVE str(_)
str(n) ==
    IF n < 10 THEN <<Digits[n + 1]>>
    ELSE str(n \div 10) \o <<Digits[(n % 10) + 1]>>

IsNumeral(s) == s # EMPTY /\ \A i \in DOMAIN s : s[i] \in Range(Digits)

RECURSIVE digits_value(_)
digits_value(s) ==
    IF s = EMPTY THEN 0
    ELSE 10 * digits_value(SubSeq(s, 1, Len(s) - 1))
         + (CHOOSE i \in 0..9 : Digits[i + 1] = s[Len(s)])

\* int(s): surrounding whitespace is ignored; anything but decimal digits
\* raises ValueError
int(s) ==
    IF IsNumeral(strip(s))
    THEN [ok |-> TRUE, value |-> digits_value(strip(s))]
    ELSE [ok |-> FALSE, value |-> 0]

\* x or ""  (a form field that was not posted reads as None)
None == <<"None">>

or_empty(x) == IF x = None \/ x = EMPTY THEN EMPTY ELSE x

-----------------------------------------------------------------------------
(* Config *)

ID_COL == <<"i", "d", "_", "c", "o", "n", "t", "r", "a", "t", "o">>

ROW_INDEX == <<"_", "r", "o", "w", "_", "i", "n", "d", "e", "x">>

EDITED_AT == <<"_", "e", "d", "i", "t", "e", "d", "_", "a", "t">>

cpf_assinante == <<"c", "p", "f", "_", "a", "s", "s", "i", "n", "a", "n", "t", "e">>

nome_assinante == <<"n", "o", "m", "e", "_", "a", "s", "s", "i", "n", "a", "n", "t", "e">>

cnpj_assinante == <<"c", "n", "p", "j", "_", "a", "s", "s", "i", "n", "a", "n", "t", "e">>

\* Columns we consider for clustering
CLUSTER_KEYS == <<cpf_assinante, nome_assinante, cnpj_assinante>>

\* partial.head(200)
HEAD_LIMIT == 200

-----------------------------------------------------------------------------
(* The contracts CSV and load_df() *)

\* what read_csv yields for an empty cell, before fillna("")
NaN == <<"NaN">>

\* pd.read_csv(..., dtype=str): one mapping column -> text per data row, an
\* empty cell read as NaN.  src.columns is the header, src.rows the cells.
\* A DataFrame is its columns, its index labels (the RangeIndex 0..N-1 that
\* read_csv assigns and every selection keeps), its rows, and the dtype of
\* the _row_index column.
read_csv(src) ==
    [columns |-> src.columns,
     index |-> [i \in DOMAIN src.rows |-> i - 1],
     rows |-> [i \in DOMAIN src.rows |->
                 [c \in Range(src.columns) |->
                    LET k == CHOOSE k \in DOMAIN src.columns : src.columns[k] = c
                        cell == src.rows[i][k]
                    IN IF cell = EMPTY THEN NaN ELSE cell]],
     row_index_dtype |-> "object"]

fillna(df) ==
    [df EXCEPT !.rows = [i \in DOMAIN df.rows |->
                           [c \in DOMAIN df.rows[i] |->
                              IF df.rows[i][c] = NaN THEN EMPTY ELSE df.rows[i][c]]]]

\* df["_row_index"] = range(len(df)): an int64 column; the model keeps each
\* cell as the decimal text every reader obtains through str() and records
\* the dtype for the readers that compare the cells as numbers.
add_row_index(df) ==
    [columns |-> Append(df.columns, ROW_INDEX),
     index |-> df.index,
     rows |-> [i \in DOMAIN df.rows |->
                 [c \in DOMAIN df.rows[i] \cup {ROW_INDEX} |->
                    IF c = ROW_INDEX THEN str(i - 1) ELSE df.rows[i][c]]],
     row_index_dtype |-> "int64"]

\* df.columns = [c.strip() for c in df.columns]
strip_columns(df) ==
    [df EXCEPT
       !.columns = [k \in DOMAIN df.columns |-> strip(df.columns[k])],
       !.rows = [i \in DOMAIN df.rows |->
                   [c \in {strip(d) : d \in Range(df.columns)} |->
                      df.rows[i][CHOOSE d \in Range(df.columns) : strip(d) = c]]]]

load_df(src) ==
    LET df == fillna(read_csv(src))
        indexed == IF ROW_INDEX \notin Range(df.columns)
                   THEN add_row_index(df) ELSE df
    IN strip_columns(indexed)

\* len(DF)
len(df) == Len(df.rows)

\* DF.iloc[row_index], row_index counted from 0
iloc(df, row_index) == df.rows[row_index + 1]

-----------------------------------------------------------------------------
(* The field registry *)

\* re.sub(r"[^0-9a-zA-Z_]+", "_", name): every maximal run of characters
\* outside the class becomes one underscore
RECURSIVE sanitize_name(_)
sanitize_name(name) ==
    IF name = EMPTY THEN EMPTY
    ELSE IF Head(name) \in WordChars
         THEN <<Head(name)>> \o sanitize_name(Tail(name))
         ELSE IF Len(name) > 1 /\ name[2] \notin WordChars
              THEN sanitize_name(Tail(name))
              ELSE <<"_">> \o sanitize_name(Tail(name))

\* list(DF.columns) with _row_index put at the end
all_columns(df) ==
    IF ROW_INDEX \in Range(df.columns)
    THEN SelectSeq(df.columns, LAMBDA c : c # ROW_INDEX) \o <<ROW_INDEX>>
    ELSE df.columns

\* {col: sanitize_name(col) for col in ALL_COLUMNS}
safe_name_map(cols) == [c \in Range(cols) |-> sanitize_name(c)]

\* {v: k for k, v in SAFE_NAME_MAP.items()}: a dict keeps, for a key written
\* twice, the value written last, and items() runs in ALL_COLUMNS order
unsafe_name_map(cols, safe) ==
    [v \in {safe[c] : c \in Range(cols)} |->
       cols[CHOOSE k \in DOMAIN cols :
              /\ safe[cols[k]] = v
              /\ \A j \in DOMAIN cols : safe[cols[j]] = v => j <= k]]

-----------------------------------------------------------------------------
(* DataFrame selections *)

\* DF[mask]: the rows whose mask entry is True, in frame order, with their
\* index labels
select(df, mask) ==
    LET keep == SelectSeq([k \in DOMAIN df.rows |-> k], LAMBDA k : mask[k])
    IN [df EXCEPT !.index = [j \in DOMAIN keep |-> df.index[keep[j]]],
                  !.rows = [j \in DOMAIN keep |-> df.rows[keep[j]]]]

\* df.head(n) with the truncation left out
head_untruncated(df, n) == df

\* df.head(n)
head(df, n) ==
    [df EXCEPT !.index = SubSeq(df.index, 1, Min(n, Len(df.index))),
               !.rows = SubSeq(df.rows, 1, Min(n, Len(df.rows)))]

\* DF.get(key, "") == value: elementwise on the column, or the one comparison
\* "" == value when the frame has no such column (a frame with none of the
\* three identity columns, where the whole mask is one bool, is not modelled)
column_eq(df, key, value) ==
    [k \in DOMAIN df.rows |->
       IF key \in Range(df.columns) THEN df.rows[k][key] = value
       ELSE EMPTY = value]

mask_and(m1, m2) == [k \in DOMAIN m1 |-> m1[k] /\ m2[k]]

mask_or(m1, m2) == [k \in DOMAIN m1 |-> m1[k] \/ m2[k]]

\* the order sort_values(by=[col]) puts two rows in: strings compare as
\* Python strings, the int64 _row_index column as numbers
sorts_before(df, col, r1, r2) ==
    IF col = ROW_INDEX /\ df.row_index_dtype = "int64"
    THEN int(r1[col]).value < int(r2[col]).value
    ELSE str_lt(r1[col], r2[col])

\* df.sort_values(by=[col]): a row's place is one more than the number of
\* rows that go before it; rows with equal keys keep their relative order
\* (as numpy's sort does on the short arrays where keys can be equal)
sort_values(df, col) ==
    LET n == Len(df.rows)
        goes_before(m, k) ==
            \/ sorts_before(df, col, df.rows[m], df.rows[k])
            \/ /\ ~sorts_before(df, col, df.rows[k], df.rows[m])
               /\ m < k
        place == SubSeq([k \in 1..n |->
                           1 + Cardinality({m \in 1..n : goes_before(m, k)})], 1, n)
        order == [j \in 1..n |-> CHOOSE k \in 1..n : place[k] = j]
    IN [df EXCEPT !.index = [j \in 1..n |-> df.index[order[j]]],
                  !.rows = [j \in 1..n |-> df.rows[order[j]]]]

-----------------------------------------------------------------------------
(* Identity lookups and the cluster *)

NoRow == [is_none |-> TRUE]

\* exact match on the triple to choose a seed row
get_row_by_keys(df, cpf, nome, cnpj) ==
    LET mask == mask_and(mask_and(column_eq(df, cpf_assinante, or_empty(cpf)),
                                  column_eq(df, nome_assinante, or_empty(nome))),
                         column_eq(df, cnpj_assinante, or_empty(cnpj)))
        matches == select(df, mask)
    IN IF matches.rows = <<>> THEN NoRow
       ELSE [is_none |-> FALSE, row |-> matches.rows[1], name |-> matches.index[1]]

\* compute_cluster without the test that the seed's value is not empty
compute_cluster_empty_keys(df, seed) ==
    LET keys == SelectSeq(CLUSTER_KEYS, LAMBDA key : key \in Range(df.columns))
        mask == [k \in DOMAIN df.rows |->
                   \E j \in DOMAIN keys : df.rows[k][keys[j]] = seed[keys[j]]]
    IN IF keys = <<>> THEN df
       ELSE select(df, mask)

\* Cluster = all rows that share ANY of (cpf, nome, cnpj) with the seed row
compute_cluster(df, seed) ==
    LET keys == SelectSeq(CLUSTER_KEYS,
                  LAMBDA key : key \in Range(df.columns) /\ seed[key] # EMPTY)
        mask == [k \in DOMAIN df.rows |->
                   \E j \in DOMAIN keys : df.rows[k][keys[j]] = seed[keys[j]]]
    IN IF keys = <<>> THEN head(df, 0)
       ELSE sort_values(select(df, mask),
                        IF ID_COL \in Range(df.columns) THEN ID_COL ELSE ROW_INDEX)

-----------------------------------------------------------------------------
(* Routes.  A response is [status, endpoint, row_index, rows, index, entry]:
   the status code, the template rendered or the endpoint redirected to, the
   row index a redirect carries, the rows handed to the template, the index
   labels of the frame those rows come from (not rendered; kept to tell the
   rows apart), and for /update the line appended. *)

NoResponse ==
    [status |-> 0, endpoint |-> "", row_index |-> -1, rows |-> <<>>,
     index |-> <<>>, entry |-> <<>>]

render(template, frame) ==
    [NoResponse EXCEPT !.status = 200, !.endpoint = template,
                       !.rows = frame.rows, !.index = frame.index]

redirect(endpoint, row_index) ==
    [NoResponse EXCEPT !.status = 302, !.endpoint = endpoint,
                       !.row_index = row_index]

abort(code) == [NoResponse EXCEPT !.status = code]

\* request.form.get(key)
form_get(form, key) == IF key \in DOMAIN form THEN form[key] ELSE None

\* POST /pick
pick(form) ==
    LET cpf == strip(or_empty(form_get(form, cpf_assinante)))
        nome == strip(or_empty(form_get(form, nome_assinante)))
        cnpj == strip(or_empty(form_get(form, cnpj_assinante)))
        row == get_row_by_keys(DF, cpf, nome, cnpj)
    IN IF row.is_none
       THEN LET partial_mask ==
                    mask_or(mask_or(column_eq(DF, cpf_assinante, cpf),
                                    column_eq(DF, nome_assinante, nome)),
                            column_eq(DF, cnpj_assinante, cnpj))
                partial == select(DF, partial_mask)
            IN IF partial.rows = <<>> THEN redirect("home", -1)
               ELSE render("pick.html", head(partial, HEAD_LIMIT))
       ELSE LET row_index == int(row.row[ROW_INDEX])
            IN IF row_index.ok THEN redirect("cluster", row_index.value)
               ELSE abort(500)   \* ValueError

\* GET /cluster/<int:row_index>
cluster(row_index) ==
    IF row_index < 0 \/ row_index >= len(DF) THEN abort(404)
    ELSE render("cluster.html", compute_cluster(DF, iloc(DF, row_index)))

\* GET /contract/<int:row_index>: the form fields (safe, label, value) of
\* the row, in ALL_COLUMNS order.  The PDF directory is outside the model.
contract(row_index) ==
    IF row_index < 0 \/ row_index >= len(DF) THEN abort(404)
    ELSE LET row == iloc(DF, row_index)
             fields == [k \in DOMAIN ALL_COLUMNS |->
                          [safe |-> SAFE_NAME_MAP[ALL_COLUMNS[k]],
                           label |-> ALL_COLUMNS[k],
                           value |-> IF ALL_COLUMNS[k] \in DOMAIN row
                                     THEN row[ALL_COLUMNS[k]] ELSE EMPTY]]
         IN [NoResponse EXCEPT !.status = 200, !.endpoint = "contract.html",
                               !.row_index = row_index, !.rows = fields,
                               !.index = <<DF.index[row_index + 1]>>]

-----------------------------------------------------------------------------
(* POST /contract/<int:row_index>/update *)

\* no edits CSV on disk
Absent == [exists |-> FALSE, chunks |-> <<>>]

\* Rehydrate posted data back to original column names: a posted name that
\* UNSAFE_NAME_MAP does not know, or maps to the empty name, is dropped
rehydrate(form) ==
    LET known == {k \in DOMAIN form : k \in DOMAIN UNSAFE_NAME_MAP
                                      /\ UNSAFE_NAME_MAP[k] # EMPTY}
    IN [c \in {UNSAFE_NAME_MAP[k] : k \in known} |->
          form[CHOOSE k \in known : UNSAFE_NAME_MAP[k] = c]]

\* datetime.utcnow().isoformat(timespec="seconds") + "Z", the clock reading
\* written as its count of seconds
isoformat(t) == str(t) \o <<"Z">>

\* Ensure row_index and timestamp present
stamp(posted, row_index, t) ==
    [c \in DOMAIN posted \cup {ROW_INDEX, EDITED_AT} |->
       IF c = ROW_INDEX THEN str(row_index)
       ELSE IF c = EDITED_AT THEN isoformat(t)
       ELSE posted[c]]

\* all original columns + metadata
out_cols ==
    IF EDITED_AT \notin Range(ALL_COLUMNS) THEN Append(ALL_COLUMNS, EDITED_AT)
    ELSE ALL_COLUMNS

\* the complete row with the original value taken before the posted one
complete_row_original_first(posted, original_row) ==
    [c \in Range(out_cols) |->
       IF c \in DOMAIN original_row /\ c # ROW_INDEX THEN original_row[c]
       ELSE IF c \in DOMAIN posted THEN posted[c]
       ELSE EMPTY]

\* the complete row: the posted value, else the original value of the row
complete_row(posted, original_row) ==
    [c \in Range(out_cols) |->
       IF c \in DOMAIN posted THEN posted[c]
       ELSE IF c \in DOMAIN original_row THEN original_row[c]
       ELSE EMPTY]

\* what DataFrame([complete], columns=out_cols).to_csv(..., header=...) hands
\* to the file in one buffered write: the header line, if asked for, and the
\* line of the row
csv_lines(complete, header) ==
    (IF header THEN <<[kind |-> "header", cells |-> out_cols]>> ELSE <<>>)
    \o <<[kind |-> "row", cells |-> [k \in DOMAIN out_cols |-> complete[out_cols[k]]]]>>

\* the same with mode="w": the file is cut to nothing first
append_to_truncating(file, lines) == [exists |-> TRUE, chunks |-> lines]

\* open(EDITS_CSV_PATH, mode="a") creates the file; the write goes to its end
append_to(file, lines) == [exists |-> TRUE, chunks |-> file.chunks \o lines]

\* update() with the dataset changed in place to the complete row
update_in_place(row_index, form, t) ==
    IF row_index < 0 \/ row_index >= len(DF)
    THEN [DF |-> DF, journal |-> journal, resp |-> abort(404)]
    ELSE LET posted == stamp(rehydrate(form), row_index, t)
             complete == complete_row(posted, iloc(DF, row_index))
         IN [DF |-> [DF EXCEPT !.rows[row_index + 1] =
                        [c \in DOMAIN @ |-> complete[c]]],
             journal |-> append_to(journal, csv_lines(complete, ~journal.exists)),
             resp |-> [redirect("contract", row_index) EXCEPT
                         !.entry = csv_lines(complete, FALSE)[1].cells]]

\* the handler run from its first line to its last at clock reading t: the
\* dataset, the edits CSV and the response it leaves
update(row_index, form, t) ==
    IF row_index < 0 \/ row_index >= len(DF)
    THEN [DF |-> DF, journal |-> journal, resp |-> abort(404)]
    ELSE LET posted == stamp(rehydrate(form), row_index, t)
             complete == complete_row(posted, iloc(DF, row_index))
             exists == journal.exists
         IN [DF |-> DF,
             journal |-> append_to(journal, csv_lines(complete, ~exists)),
             resp |-> [redirect("contract", row_index) EXCEPT
                         !.entry = csv_lines(complete, FALSE)[1].cells]]

-----------------------------------------------------------------------------
(* Start-up: lines 43 and 78-86 *)

Idle == [t \in 1..MaxThreads |-> "idle"]

NoLocals == [t \in 1..MaxThreads |-> <<>>]

Startup(src, edits) ==
    /\ source = src
    /\ DF = load_df(src)
    /\ ALL_COLUMNS = all_columns(load_df(src))
    /\ SAFE_NAME_MAP = safe_name_map(all_columns(load_df(src)))
    /\ UNSAFE_NAME_MAP =
         unsafe_name_map(all_columns(load_df(src)),
                         safe_name_map(all_columns(load_df(src))))
    /\ journal = edits
    /\ edits0 = edits
    /\ now = 0
    /\ req = [op |-> "start"]
    /\ resp = NoResponse
    /\ pc = Idle
    /\ loc = NoLocals

Globals == <<source, DF, ALL_COLUMNS, SAFE_NAME_MAP, UNSAFE_NAME_MAP, edits0>>

-----------------------------------------------------------------------------
(* Contracts CSVs of the lookup model *)

IdentityHeader == <<cpf_assinante, nome_assinante, cnpj_assinante>>

\* the (cpf, nome, cnpj) cells of a data row: nothing, one attribute, or
\* cpf and nome
IdentityRows ==
    {<<EMPTY, EMPTY, EMPTY>>, <<<<"a">>, EMPTY, EMPTY>>, <<<<"a">>, <<"a">>, EMPTY>>,
     <<EMPTY, <<"a">>, EMPTY>>, <<EMPTY, EMPTY, <<"a">>>>}

CpfRows == {r \in IdentityRows : r[1] = <<"a">>}

\* every CSV of up to MaxRows rows over the three identity columns
PlainSources ==
    UNION {[columns : {IdentityHeader}, rows : [1..n -> IdentityRows]]
             : n \in 0..MaxRows}

\* CSVs with an id_contrato column whose values fall as the rows go on
IdSources ==
    UNION {{[columns |-> IdentityHeader \o <<ID_COL>>,
             rows |-> [i \in 1..n |-> r[i] \o <<str(n - i)>>]]
              : r \in [1..n -> CpfRows]} : n \in 1..MaxRows}

\* CSVs that bring their own _row_index column: the numbers of the rows of
\* another file (here counted down), or text that is no number
OwnIndexSources ==
    UNION {{[columns |-> <<ROW_INDEX>> \o IdentityHeader,
             rows |-> [i \in 1..n |->
                         <<IF numeric THEN str(n - i) ELSE <<"x">>>> \o r[i]]]
              : r \in [1..n -> CpfRows], numeric \in BOOLEAN}
           : n \in 1..MaxRows}

\* long CSVs: every row has cpf a and nome a, except, when gaps, the rows at
\* positions 2 and HEAD_LIMIT, which have cpf empty and cnpj a
LongSources ==
    {[columns |-> IdentityHeader,
      rows |-> [i \in 1..n |->
                  IF gaps /\ i \in {2, HEAD_LIMIT}
                  THEN <<EMPTY, <<"a">>, <<"a">>>>
                  ELSE <<<<"a">>, <<"a">>, EMPTY>>]]
       : n \in {HEAD_LIMIT, HEAD_LIMIT + 1, HEAD_LIMIT + 3}, gaps \in BOOLEAN}

DenseSources == PlainSources \cup IdSources

LookupSources == DenseSources \cup OwnIndexSources

\* what a /pick form may post in each identity field (or leave the field
\* out): the value a, and for the cpf also a with a blank before it
QueryValues(key) ==
    IF key = cpf_assinante THEN {<<"a">>, <<" ", "a">>} ELSE {<<"a">>}

PickForms ==
    UNION {{f \in [keys -> {<<"a">>, <<" ", "a">>}] :
              \A key \in keys : f[key] \in QueryValues(key)}
           : keys \in SUBSET Range(IdentityHeader)}

-----------------------------------------------------------------------------
(* The lookup model: requests to /pick, /cluster and /contract *)

Pick ==
    \E form \in PickForms :
        /\ req' = [op |-> "pick", form |-> form]
        /\ resp' = pick(form)
        /\ UNCHANGED <<Globals, journal, now, pc, loc>>

Cluster ==
    \E row_index \in 0..MaxRows :
        /\ req' = [op |-> "cluster", row_index |-> row_index]
        /\ resp' = cluster(row_index)
        /\ UNCHANGED <<Globals, journal, now, pc, loc>>

Contract ==
    \E row_index \in 0..MaxRows :
        /\ req' = [op |-> "contract", row_index |-> row_index]
        /\ resp' = contract(row_index)
        /\ UNCHANGED <<Globals, journal, now, pc, loc>>

InitLookup == \E src \in LookupSources : Startup(src, Absent)

NextLookup == Pick \/ Cluster \/ Contract

SpecLookup == InitLookup /\ [][NextLookup]_vars

\* the same over the CSVs without a _row_index column of their own
InitDense == \E src \in DenseSources : Startup(src, Absent)

SpecDense == InitDense /\ [][NextLookup]_vars

\* The /pick model: the same with the long CSVs, and /pick requests only
InitPick == \E src \in LookupSources \cup LongSources : Startup(src, Absent)

SpecPick == InitPick /\ [][Pick]_vars

-----------------------------------------------------------------------------
(* Contracts CSVs of the edit-journal model *)

col_a == <<"a">>

col_a_b == <<"a", " ", "b">>

col_a_underscore_b == <<"a", "_", "b">>

col_b_padded == <<" ", "b">>

col_blank == <<" ">>

\* headers: plain names; a name the sanitizer changes; two names it maps to
\* one identifier, in both orders; a schema with its own _edited_at column;
\* a name with a blank to strip; a blank name; a _row_index column of the
\* file's own
JournalHeaders ==
    {<<col_a>>, <<col_a_b>>, <<col_a_b, col_a_underscore_b>>,
     <<col_a_underscore_b, col_a_b>>, <<col_a, EDITED_AT>>,
     <<col_a, col_b_padded>>, <<col_a, col_blank>>, <<ROW_INDEX, col_a>>}

\* the data under a header: a first row of x, then rows with the first cell
\* empty and y in the others; a _row_index column of the file's own counts
\* from 7
JournalSource(header, n) ==
    [columns |-> header,
     rows |-> [i \in 1..n |->
                 [k \in DOMAIN header |->
                    IF header[k] = ROW_INDEX THEN str(6 + i)
                    ELSE IF i = 1 THEN <<"x">>
                    ELSE IF k = 1 THEN EMPTY ELSE <<"y">>]]]

JournalSources ==
    {JournalSource(header, 2) : header \in JournalHeaders}
        \cup {JournalSource(<<col_a, col_b_padded>>, 3)}

\* what an /update form may post: nothing; the first column's field; every
\* field of the form, the _edited_at name and a name the form never had
UpdateForms ==
    {<<>>,
     [k \in {SAFE_NAME_MAP[ALL_COLUMNS[1]]} |-> <<"p">>],
     [k \in Range(SAFE_NAME_MAP) \cup {EDITED_AT, <<"z", "z">>} |-> <<"q">>]}

\* an edits CSV left by an earlier run over the same contracts CSV: the
\* header and one unedited row 0
PriorEdits ==
    append_to(Absent,
              csv_lines(complete_row(stamp(<<>>, 0, 0), iloc(DF, 0)), TRUE))

RowLines(file) == SelectSeq(file.chunks, LAMBDA ch : ch.kind = "row")

Appended == Len(RowLines(journal)) - Len(RowLines(edits0))

-----------------------------------------------------------------------------
(* The edit-journal model: /update requests answered one after another *)

Update ==
    \E row_index \in 0..len(DF), form \in UpdateForms :
        /\ Appended < MaxAppends
        /\ req' = [op |-> "update", row_index |-> row_index, form |-> form,
                   at |-> now]
        /\ DF' = update(row_index, form, now).DF
        /\ journal' = update(row_index, form, now).journal
        /\ resp' = update(row_index, form, now).resp
        /\ UNCHANGED <<source, ALL_COLUMNS, SAFE_NAME_MAP, UNSAFE_NAME_MAP,
                       edits0, now, pc, loc>>

\* a second passes
Tick ==
    /\ now < MaxClock
    /\ now' = now + 1
    /\ UNCHANGED <<Globals, journal, req, resp, pc, loc>>

InitJournal ==
    \E src \in JournalSources, prior \in BOOLEAN :
        Startup(src, IF prior THEN PriorEdits ELSE Absent)

NextJournal == Update \/ Tick

SpecJournal == InitJournal /\ [][NextJournal]_vars

-----------------------------------------------------------------------------
(* The concurrent model: every worker thread answers one /update request.
   A thread's steps on shared state are the os.path.exists() of line 188,
   the open() inside to_csv that creates the file, and the one write of the
   buffered lines when to_csv closes it; what comes before line 188 reads
   only the dataset and the clock. *)

Threads == 1..MaxThreads

\* lines 164-188
BeginUpdate(t) ==
    \E row_index \in 0..len(DF), form \in UpdateForms :
        /\ pc[t] = "idle"
        /\ req' = [op |-> "update", row_index |-> row_index, form |-> form,
                   at |-> now]
        /\ IF row_index < 0 \/ row_index >= len(DF)
           THEN /\ pc' = [pc EXCEPT ![t] = "done"]
                /\ loc' = [loc EXCEPT ![t] = [status |-> 404]]
                /\ resp' = abort(404)
           ELSE /\ pc' = [pc EXCEPT ![t] = "open"]
                /\ loc' = [loc EXCEPT ![t] =
                     [status |-> 302,
                      row_index |-> row_index,
                      complete |-> complete_row(stamp(rehydrate(form), row_index, now),
                                                iloc(DF, row_index)),
                      exists |-> journal.exists]]
                /\ resp' = resp
        /\ UNCHANGED <<Globals, journal, now>>

\* lines 190-192, to_csv opening the file for appending
OpenEdits(t) ==
    /\ pc[t] = "open"
    /\ journal' = [journal EXCEPT !.exists = TRUE]
    /\ pc' = [pc EXCEPT ![t] = "write"]
    /\ UNCHANGED <<Globals, now, req, resp, loc>>

\* lines 190-195, to_csv writing and closing the file
WriteEdits(t) ==
    /\ pc[t] = "write"
    /\ journal' = append_to(journal, csv_lines(loc[t].complete, ~loc[t].exists))
    /\ pc' = [pc EXCEPT ![t] = "done"]
    /\ resp' = [redirect("contract", loc[t].row_index) EXCEPT
                  !.entry = csv_lines(loc[t].complete, FALSE)[1].cells]
    /\ UNCHANGED <<Globals, now, req, loc>>

ConcurrentSources == {JournalSource(<<col_a>>, 2), JournalSource(<<col_a, EDITED_AT>>, 2)}

InitConcurrent ==
    \E src \in ConcurrentSources, prior \in BOOLEAN :
        Startup(src, IF prior THEN PriorEdits ELSE Absent)

NextConcurrent == \E t \in Threads : BeginUpdate(t) \/ OpenEdits(t) \/ WriteEdits(t)

SpecConcurrent == InitConcurrent /\ [][NextConcurrent]_vars

-----------------------------------------------------------------------------
(* Properties of the edit journal and the field registry *)

\* C1: no /update changes the dataset: every row, the number of rows and
\* the schema stay what load_df made of the contracts CSV.
C1_DatasetIsolation ==
    /\ DF = load_df(source)
    /\ len(DF) = Len(source.rows)
    /\ ALL_COLUMNS = all_columns(load_df(source))

\* an edit was appended whose first field is not the dataset's value
C1_Witness ==
    /\ req.op = "update" /\ resp.status = 302
    /\ Appended >= 1
    /\ resp.entry[1] # iloc(DF, req.row_index)[ALL_COLUMNS[1]]

InRange(row_index) == row_index >= 0 /\ row_index < len(DF)

\* one step of the edit-journal model: a passing second leaves the edits
\* CSV alone; a request in range is answered 302 and puts its line last
\* (with the header before it if there was no file); a request out of range
\* is answered 404 and writes nothing; no step takes a line away
AppendOnlyStep ==
    /\ Len(journal'.chunks) >= Len(journal.chunks)
    /\ SubSeq(journal'.chunks, 1, Len(journal.chunks)) = journal.chunks
    /\ IF now' # now THEN journal' = journal
       ELSE IF InRange(req'.row_index)
       THEN /\ resp'.status = 302
            /\ RowLines(journal') =
                 Append(RowLines(journal), [kind |-> "row", cells |-> resp'.entry])
            /\ Len(journal'.chunks) =
                 Len(journal.chunks) + (IF journal.exists THEN 1 ELSE 2)
       ELSE /\ resp'.status = 404
            /\ journal' = journal

\* C3: a request for a row in range puts exactly one line at the end of the
\* edits CSV, a request for a row out of range fails with 404 and leaves the
\* file as it is (no header, no line), and the lines written before stay
\* where and what they were: the lines are the successful requests' entries
\* in the order of the requests.
C3_AppendOnly == [][AppendOnlyStep]_vars

\* a request out of range was refused with two lines in the file, one of
\* them appended in this run
C3_Witness ==
    /\ req.op = "update" /\ resp.status = 404
    /\ Len(RowLines(journal)) >= 2
    /\ Appended >= 1

\* the posted value of column c: that of a posted name the registry maps to c
PostedFor(c) ==
    {k \in DOMAIN req.form : k \in DOMAIN UNSAFE_NAME_MAP /\ UNSAFE_NAME_MAP[k] = c}

C9_RegistryRoundTrip ==
    \A c \in Range(ALL_COLUMNS) :
        /\ SAFE_NAME_MAP[c] \in DOMAIN UNSAFE_NAME_MAP
        /\ UNSAFE_NAME_MAP[SAFE_NAME_MAP[c]] = c

\* C2: when every thread has answered its request, the edits CSV is one
\* header line, then the lines it had, then one line per request that was
\* in range (in some order), and nothing else.
C2_ConcurrentAppend ==
    (\A t \in Threads : pc[t] = "done") =>
        LET written == {t \in Threads : loc[t].status = 302}
            old == Len(edits0.chunks)
            new == SubSeq(journal.chunks, old + 1, Len(journal.chunks))
            header == [kind |-> "header", cells |-> out_cols]
            lines_of(t) == {i \in DOMAIN journal.chunks :
                              /\ i > (IF old = 0 THEN 1 ELSE old)
                              /\ journal.chunks[i] =
                                   [kind |-> "row",
                                    cells |-> csv_lines(loc[t].complete, FALSE)[1].cells]}
        IN /\ SubSeq(journal.chunks, 1, old) = edits0.chunks
           /\ written # {} =>
                /\ journal.chunks[1] = header
                /\ \A i \in 2..Len(journal.chunks) : journal.chunks[i].kind = "row"
                /\ Len(RowLines(journal)) = Len(RowLines(edits0)) + Cardinality(written)
                /\ \A t \in written : lines_of(t) # {}
           /\ written = {} => journal = edits0

-----------------------------------------------------------------------------
(* Properties of the lookups *)

IdentityAttributes == {cpf_assinante, nome_assinante, cnpj_assinante}

\* the identity values of the /pick request last answered, as the resolver
\* receives them
Supplied(K) == strip(or_empty(form_get(req.form, K)))

\* the positions (1-based) of the rows of DF among the index labels given
Listed(index) == {i + 1 : i \in Range(index)}

\* the rows handed to the template are the rows of DF their labels name,
\* each once
RowsOfDF(r) ==
    /\ Len(r.rows) = Len(r.index)
    /\ Cardinality(Range(r.index)) = Len(r.index)
    /\ \A j \in DOMAIN r.index : r.rows[j] = DF.rows[r.index[j] + 1]

\* C4: the cluster of a seed holds exactly the records that have, in some
\* identity attribute where the seed's value is not empty, the seed's value
\* (so: the seed itself when it has such a value, nothing when it has none,
\* and no record that shares a key only with another member).
C4_ClusterOneHop ==
    (req.op = "cluster" /\ resp.status = 200) =>
        LET seed == DF.rows[req.row_index + 1]
        IN /\ RowsOfDF(resp)
           /\ \A k \in DOMAIN DF.rows :
                  k \in Listed(resp.index) <=>
                      \E K \in IdentityAttributes :
                          seed[K] # EMPTY /\ DF.rows[k][K] = seed[K]

\* rows 0 and 1 share the cpf, rows 1 and 2 share the nome
ScenarioDataset ==
    /\ len(DF) = 3
    /\ DF.rows[1][cpf_assinante] = <<"a">> /\ DF.rows[1][nome_assinante] = EMPTY
    /\ DF.rows[2][cpf_assinante] = <<"a">> /\ DF.rows[2][nome_assinante] = <<"a">>
    /\ DF.rows[3][cpf_assinante] = EMPTY /\ DF.rows[3][nome_assinante] = <<"a">>
    /\ \A k \in 1..3 : DF.rows[k][cnpj_assinante] = EMPTY

\* the scenario's Cluster(row0) = {row0, row1}: row 2, tied to row 1 only,
\* is left out
C4_Witness ==
    /\ ScenarioDataset
    /\ req.op = "cluster" /\ req.row_index = 0
    /\ resp.status = 200 /\ Range(resp.index) = {0, 1}

\* C6: /pick redirects to the lowest row whose three identity values equal
\* the supplied ones, and finds nothing when no row qualifies or when all
\* three supplied values are empty.
C6_ExactMatch ==
    req.op = "pick" =>
        LET qualifying == {k \in DOMAIN DF.rows :
                             \A K \in IdentityAttributes : DF.rows[k][K] = Supplied(K)}
            all_empty == \A K \in IdentityAttributes : Supplied(K) = EMPTY
        IN IF qualifying = {} \/ all_empty
           THEN resp.endpoint \in {"home", "pick.html"}
           ELSE /\ resp.endpoint = "cluster"
                /\ resp.row_index + 1 \in qualifying
                /\ \A k \in qualifying : resp.row_index + 1 <= k

\* C7: the partial matches are exactly the rows that have, in some identity
\* attribute whose supplied value is not empty, the supplied value.
C7_PartialMatch ==
    (req.op = "pick" /\ resp.endpoint \in {"home", "pick.html"}) =>
        \A k \in DOMAIN DF.rows :
            k \in Listed(resp.index) <=>
                \E K \in IdentityAttributes :
                    Supplied(K) # EMPTY /\ DF.rows[k][K] = Supplied(K)

\* the rows /pick's partial mask selects: equal to the supplied value in
\* some identity attribute
Candidates ==
    {k \in DOMAIN DF.rows :
       \E K \in IdentityAttributes : DF.rows[k][K] = Supplied(K)}

\* C8: the list /pick offers has at most 200 rows, and is the candidates'
\* prefix in row order: the 200 lowest candidates when there are more, all
\* of them otherwise, in ascending order.
C8_PartialCap ==
    (req.op = "pick" /\ resp.endpoint = "pick.html") =>
        LET n == Len(resp.index)
        IN /\ n <= 200
           /\ n = Min(200, Cardinality(Candidates))
           /\ RowsOfDF(resp)
           /\ Listed(resp.index) \subseteq Candidates
           /\ \A i, j \in DOMAIN resp.index : i < j => resp.index[i] < resp.index[j]
           /\ \A k \in Candidates :
                  k - 1 < resp.index[n] => k \in Listed(resp.index)

\* more than 200 candidates, with rows that are none in between: the list
\* stops at the 200th candidate, row 201
C8_Witness ==
    /\ req.op = "pick" /\ resp.endpoint = "pick.html"
    /\ Cardinality(Candidates) > 200
    /\ Len(resp.index) = 200
    /\ resp.index[200] = 201

\* C10: the row at position i carries the row id i, and the row id /pick
\* redirects with is the position of the row it matched.
C10_RowIdDense ==
    /\ \A k \in DOMAIN DF.rows :
           int(DF.rows[k][ROW_INDEX]) = [ok |-> TRUE, value |-> k - 1]
    /\ (req.op = "pick" /\ resp.endpoint \notin {"home", "pick.html"}) =>
           /\ resp.endpoint = "cluster"
           /\ resp.row_index \in 0..(len(DF) - 1)
           /\ \A K \in IdentityAttributes :
                  iloc(DF, resp.row_index)[K] = Supplied(K)

====
